---- MODULE Spec2Model ----
(***************************************************************************)
(* A model of the MMRag retrieval-augmented-generation workflow:           *)
(*   - the document loader, the chunker and the indexing workflow          *)
(*     (src/RAG.py RAGSystem, src/index.py);                               *)
(*   - the question answering surfaces (src/app.py HTTP handlers,          *)
(*     src/RAG.py RAGSystem.ask_question / clear_conversation).            *)
(* Strings the code inspects (file names, document text) are sequences of  *)
(* one-character strings, so that lower(), endswith(), basename() and the  *)
(* text splitter are computed, not assumed.                                *)
(***************************************************************************)
EXTENDS Integers, Sequences, FiniteSets, TLC

\* ------------------------------------------------------------------ bounds
MaxFiles == 2        \* files in one selection of the file dialog
MaxRuns == 2         \* indexing runs against the same vector store
MaxTextLen == 4      \* characters of a document handed to the chunker
MaxChunkSize == 3    \* largest chunk_size configuration tried
MaxLines == 3        \* lines typed into one chat session

\* ------------------------------------------------------- string helpers
LowerChar(c) ==
    CASE c = "P" -> "p" [] c = "D" -> "d" [] c = "F" -> "f"
      [] c = "T" -> "t" [] c = "X" -> "x" [] c = "A" -> "a"
      [] c = "B" -> "b" [] c = "E" -> "e" [] c = "I" -> "i" [] OTHER -> c

\* str.lower()
Lower(s) == [i \in 1..Len(s) |-> LowerChar(s[i])]

\* str.endswith(suffix)
EndsWith(s, suffix) ==
    /\ Len(s) >= Len(suffix)
    /\ \A j \in 1..Len(suffix) : s[Len(s) - Len(suffix) + j] = suffix[j]

RECURSIVE LastSlash(_, _)
LastSlash(p, i) ==
    IF i = 0 THEN 0 ELSE IF p[i] = "/" THEN i ELSE LastSlash(p, i - 1)

\* os.path.basename(path): what follows the last "/"
Basename(p) == SubSeq(p, LastSlash(p, Len(p)) + 1, Len(p))

RECURSIVE Flatten(_)
Flatten(ss) == IF ss = <<>> THEN <<>> ELSE Head(ss) \o Flatten(Tail(ss))

\* ------------------------------------------------------- text splitter
\* RecursiveCharacterTextSplitter(separators=["\n\n", "\n", ".", " "]),
\* keep_separator and strip_whitespace at their defaults (True).
Separators == << <<"\n", "\n">>, <<"\n">>, <<".">>, <<" ">> >>

DefaultChunkSize == 500
DefaultChunkOverlap == 50

IsWhite(c) == c \in {" ", "\n"}

RECURSIVE LStrip(_)
LStrip(s) == IF s # <<>> /\ IsWhite(Head(s)) THEN LStrip(Tail(s)) ELSE s

RECURSIVE RStrip(_)
RStrip(s) ==
    IF s # <<>> /\ IsWhite(s[Len(s)]) THEN RStrip(SubSeq(s, 1, Len(s) - 1)) ELSE s

\* str.strip()
Strip(s) == RStrip(LStrip(s))

MatchAt(sep, text, i) ==
    /\ i + Len(sep) - 1 <= Len(text)
    /\ \A j \in 1..Len(sep) : text[i + j - 1] = sep[j]

\* re.search(re.escape(sep), text)
Contains(text, sep) == \E i \in 1..Len(text) : MatchAt(sep, text, i)

RECURSIVE SplitKeep(_, _, _, _)
SplitKeep(text, sep, i, cur) ==
    IF i > Len(text) THEN <<cur>>
    ELSE IF MatchAt(sep, text, i)
         THEN <<cur>> \o SplitKeep(text, sep, i + Len(sep), sep)
         ELSE SplitKeep(text, sep, i + 1, Append(cur, text[i]))

\* _split_text_with_regex(text, separator, keep_separator=True): each
\* separator is kept at the start of the piece that follows it; empty pieces
\* are dropped.
SplitTextWithRegex(text, sep) ==
    SelectSeq(SplitKeep(text, sep, 1, <<>>), LAMBDA s : s # <<>>)

\* _join_docs(docs, separator) with strip_whitespace: None (here <<>>) when
\* nothing but whitespace is left.
JoinDocs(docs) == Strip(Flatten(docs))

RECURSIVE PopWhile(_, _, _, _, _)
\* the inner while loop of _merge_splits (separator_len = 0: the separator
\* is kept inside the pieces)
PopWhile(cur, total, len, size, overlap) ==
    IF total > overlap \/ (total + len > size /\ total > 0)
    THEN PopWhile(Tail(cur), total - Len(Head(cur)), len, size, overlap)
    ELSE [cur |-> cur, total |-> total]

RECURSIVE MergeFrom(_, _, _, _, _, _)
MergeFrom(splits, docs, cur, total, size, overlap) ==
    IF splits = <<>>
    THEN IF JoinDocs(cur) = <<>> THEN docs ELSE Append(docs, JoinDocs(cur))
    ELSE LET d == Head(splits)
             len == Len(d)
         IN  IF total + len > size /\ Len(cur) > 0
             THEN LET docs2 == IF JoinDocs(cur) = <<>> THEN docs
                               ELSE Append(docs, JoinDocs(cur))
                      p == PopWhile(cur, total, len, size, overlap)
                  IN  MergeFrom(Tail(splits), docs2, Append(p.cur, d),
                                p.total + len, size, overlap)
             ELSE MergeFrom(Tail(splits), docs, Append(cur, d), total + len,
                            size, overlap)

\* _merge_splits(splits, separator)
MergeSplits(splits, size, overlap) == MergeFrom(splits, <<>>, <<>>, 0, size, overlap)

RECURSIVE PickSeparator(_, _, _)
\* the first separator of the list found in the text, and the separators
\* after it; the last separator and no further ones when none is found
PickSeparator(text, seps, i) ==
    IF i > Len(seps) THEN [sep |-> seps[Len(seps)], rest |-> <<>>]
    ELSE IF Contains(text, seps[i])
         THEN [sep |-> seps[i], rest |-> SubSeq(seps, i + 1, Len(seps))]
         ELSE PickSeparator(text, seps, i + 1)

RECURSIVE SplitText(_, _, _, _)
RECURSIVE SplitLoop(_, _, _, _, _, _)
\* the for loop of _split_text over the pieces
SplitLoop(splits, good, final, rest, size, overlap) ==
    IF splits = <<>>
    THEN IF good # <<>> THEN final \o MergeSplits(good, size, overlap) ELSE final
    ELSE LET s == Head(splits) IN
         IF Len(s) < size
         THEN SplitLoop(Tail(splits), Append(good, s), final, rest, size, overlap)
         ELSE LET final2 == IF good # <<>>
                            THEN final \o MergeSplits(good, size, overlap)
                            ELSE final
                  final3 == IF rest = <<>> THEN Append(final2, s)
                            ELSE final2 \o SplitText(s, rest, size, overlap)
              IN  SplitLoop(Tail(splits), <<>>, final3, rest, size, overlap)

\* RecursiveCharacterTextSplitter._split_text(text, separators)
SplitText(text, seps, size, overlap) ==
    LET p == PickSeparator(text, seps, 1)
    IN  SplitLoop(SplitTextWithRegex(text, p.sep), <<>>, <<>>, p.rest, size, overlap)

RECURSIVE ChunkDocs(_, _, _)
ChunkDocs(docs, size, overlap) ==
    IF docs = <<>> THEN <<>>
    ELSE LET d == Head(docs)
             parts == SplitText(d.page_content, Separators, size, overlap)
         IN  [k \in 1..Len(parts) |->
                 [page_content |-> parts[k], source |-> d.source, page |-> d.page]]
             \o ChunkDocs(Tail(docs), size, overlap)

\* chunk_documents(documents, chunk_size, chunk_overlap)
chunk_documents(documents, chunk_size, chunk_overlap) ==
    ChunkDocs(documents, chunk_size, chunk_overlap)

\* ------------------------------------------------------------ the state
VARIABLES
    \* the indexing workflow (src/RAG.py run_indexing_workflow, src/index.py main)
    entry,            \* "RAG" (RAGSystem) or "index" (index.py)
    openai_key,       \* OPENAI_API_KEY is set and non-empty
    nomic_key,        \* NOMIC_API_KEY is set and non-empty
    pc,               \* position of the workflow
    selected_files,   \* what the file dialog returned
    documents,        \* what the loader returned
    chunks,           \* what the chunker returned
    result,           \* the workflow's return value
    calls,            \* service calls of this run, in order
    collection,       \* the store's collection bank_documents, or Absent
    createRequests,   \* create_collection requests issued so far
    runs,             \* workflow runs started so far
    \* the chunker applied to one text
    ck_text, ck_size, ck_overlap, ck_out, ck_pc,
    \* question answering (src/app.py, src/RAG.py RAGSystem)
    surface,          \* "app" (HTTP server) or "RAG" (a RAGSystem object)
    launch,           \* app.py run as a script ("main") or imported by a server
    srv_pc,           \* "boot", "serving" or "stopped"
    qa_chain,         \* the QA chain has been built (not None)
    memory,           \* the ConversationBufferMemory, or NoMemory
    index_store,      \* the records of the collection, as stored
    threads,          \* the request each thread is handling
    resp,             \* the last response of each thread
    nreq,             \* requests handled or begun so far
    lastMemOp,        \* the last operation that wrote the memory, and whose
    recorded,         \* the messages the requests have recorded since the last clear
    \* the chat loop (src/RAG.py run_interactive_chat, src/ask.py start_chat)
    repl_impl,        \* "RAG" (run_interactive_chat) or "ask" (ask.py)
    repl_pc,          \* "boot", "reading", "done", "crashed" or "init_failed"
    repl_read,        \* the lines input() returned so far
    repl_fwd,         \* the lines handed to the QA chain so far
    repl_out          \* what was printed for each forwarded line

idxVars == <<entry, openai_key, nomic_key, pc, selected_files, documents, chunks,
             result, calls, collection, createRequests, runs>>
ckVars == <<ck_text, ck_size, ck_overlap, ck_out, ck_pc>>
srvVars == <<surface, launch, srv_pc, qa_chain, memory, index_store, threads, resp,
             nreq, lastMemOp, recorded>>
replVars == <<repl_impl, repl_pc, repl_read, repl_fwd, repl_out>>
vars == <<idxVars, ckVars, srvVars, replVars>>

\* ------------------------------------------------------ document loader
Str_pdf == <<".", "p", "d", "f">>
Str_txt == <<".", "t", "x", "t">>

Paths == { <<"/", "d", "/", "a", ".", "p", "d", "f">>,
           <<"B", ".", "P", "D", "F">>,
           <<"c", ".", "T", "x", "T">>,
           <<"x", ".", "d", "o", "c", "x">>,
           <<"p", "d", "f">> }

\* a file of the file system: its path and whether reading it succeeds
Files == [path : Paths, load : {"ok", "error"}]

\* a Document without a page number (chunk.metadata.get("page", -1))
NoPage == -1

\* PyPDFLoader(file_path).load_and_split(): one Document per page
PdfPages(path) ==
    << [page_content |-> <<"a", ".", "b">>, source |-> path, page |-> 0],
       [page_content |-> <<"c", " ", "d">>, source |-> path, page |-> 1] >>

\* TextLoader(file_path, encoding='utf-8').load(): the whole file, one Document
TxtDocs(path) ==
    << [page_content |-> <<"a", " ", "b", "\n", "c">>, source |-> path, page |-> NoPage] >>

\* LoadOne with the extension compared without lower()
LoadOneCaseSensitive(f) ==
    LET file_name == Basename(f.path) IN
    IF EndsWith(file_name, Str_pdf)
    THEN IF f.load = "ok" THEN PdfPages(f.path) ELSE <<>>
    ELSE IF EndsWith(file_name, Str_txt)
         THEN IF f.load = "ok" THEN TxtDocs(f.path) ELSE <<>>
         ELSE <<>>

\* one iteration of the for loop of load_documents_from_files: the Documents
\* the file adds to all_docs
LoadOne(f) ==
    LET file_name == Basename(f.path) IN
    IF EndsWith(Lower(file_name), Str_pdf)
    THEN IF f.load = "ok" THEN PdfPages(f.path) ELSE <<>>
    ELSE IF EndsWith(Lower(file_name), Str_txt)
         THEN IF f.load = "ok" THEN TxtDocs(f.path) ELSE <<>>
         ELSE <<>>

RECURSIVE LoadFrom(_, _)
LoadFrom(file_paths, all_docs) ==
    IF file_paths = <<>> THEN all_docs
    ELSE LoadFrom(Tail(file_paths), all_docs \o LoadOne(Head(file_paths)))

\* load_documents_from_files(file_paths)
load_documents_from_files(file_paths) == LoadFrom(file_paths, <<>>)

\* --------------------------------------------------- indexing workflow
RECURSIVE SeqsUpTo(_, _)
SeqsUpTo(S, n) ==
    IF n = 0 THEN {<<>>}
    ELSE LET shorter == SeqsUpTo(S, n - 1)
         IN  shorter \cup {Append(q, x) : q \in shorter, x \in S}

\* VectorParams(size=768, distance=Distance.COSINE)
CollectionConfig == [size |-> 768, distance |-> "Cosine"]

\* the store holds no collection bank_documents; otherwise it holds the
\* one-element sequence of its configuration
Absent == <<>>

\* select_files() returns None for an empty selection; the callers only test
\* `not selected_files`, so None is the empty list here
NoSelection == <<>>

InitIndex ==
    /\ entry \in {"RAG", "index"}
    /\ openai_key \in BOOLEAN
    /\ nomic_key \in BOOLEAN
    /\ pc = "new"
    /\ selected_files = NoSelection
    /\ documents = <<>>
    /\ chunks = <<>>
    /\ result = "running"
    /\ calls = <<>>
    /\ collection \in {Absent, <<CollectionConfig>>}
    /\ createRequests = 0
    /\ runs = 1

idxRun == <<selected_files, documents, chunks, result, calls>>
idxStore == <<collection, createRequests>>
idxEnv == <<entry, openai_key, nomic_key, runs>>

\* RAGSystem.__init__: both keys are validated before anything else
RAGConstruct ==
    /\ entry = "RAG" /\ pc = "new"
    /\ pc' = IF ~openai_key \/ ~nomic_key THEN "init_failed" ELSE "select"
    /\ UNCHANGED <<idxRun, idxStore, idxEnv, ckVars, srvVars, replVars>>

\* index.py main(): no validation before the file dialog
IndexMain ==
    /\ entry = "index" /\ pc = "new"
    /\ pc' = "select"
    /\ UNCHANGED <<idxRun, idxStore, idxEnv, ckVars, srvVars, replVars>>

\* where the workflow goes after select_files(): `if not selected_files: return`
AfterSelect(sel) == IF sel = NoSelection THEN "returned" ELSE "load"

\* select_files(): None when the dialog returns nothing, else the list
SelectFiles ==
    /\ pc = "select"
    /\ \E sel \in SeqsUpTo(Files, MaxFiles) :
         /\ selected_files' = IF sel = <<>> THEN NoSelection ELSE sel
         /\ pc' = AfterSelect(selected_files')
         /\ result' = IF AfterSelect(selected_files') = "returned"
                      THEN (IF entry = "RAG" THEN "False" ELSE "None")
                      ELSE result
    /\ UNCHANGED <<documents, chunks, calls, idxStore, idxEnv, ckVars, srvVars, replVars>>

\* AfterLoad without the empty check
AfterLoadNoCheck(docs) == "chunk"

\* where the workflow goes after the loader: `if not documents: return`
AfterLoad(docs) == IF docs = <<>> THEN "returned" ELSE "chunk"

LoadDocuments ==
    /\ pc = "load"
    /\ documents' = load_documents_from_files(selected_files)
    /\ pc' = AfterLoad(documents')
    /\ result' = IF AfterLoad(documents') = "returned"
                 THEN (IF entry = "RAG" THEN "False" ELSE "None")
                 ELSE result
    /\ UNCHANGED <<selected_files, chunks, calls, idxStore, idxEnv, ckVars, srvVars, replVars>>

ChunkDocuments ==
    /\ pc = "chunk"
    /\ chunks' = chunk_documents(documents, DefaultChunkSize, DefaultChunkOverlap)
    /\ pc' = "connect"
    /\ UNCHANGED <<selected_files, documents, result, calls, idxStore, idxEnv, ckVars, srvVars, replVars>>

\* client.get_collection(name) answers iff the collection is there and the
\* request itself does not fail
GetCollectionOk(coll, getFails) == coll # Absent /\ ~getFails

\* connect_qdrant(): the try/except around get_collection, create_collection
\* in the except branch. getFails/createFails: the request fails for a reason
\* of its own (store unreachable, timeout).
ConnectQdrant ==
    /\ pc = "connect"
    /\ \E getFails \in BOOLEAN, createFails \in BOOLEAN :
         IF GetCollectionOk(collection, getFails)
         THEN /\ calls' = Append(calls, "get_collection")
              /\ pc' = "embed_init"
              /\ UNCHANGED <<collection, createRequests, result>>
         ELSE /\ calls' = calls \o <<"get_collection", "create_collection">>
              /\ createRequests' = createRequests + 1
              /\ IF collection = Absent /\ ~createFails
                 THEN /\ collection' = <<CollectionConfig>>
                      /\ pc' = "embed_init"
                      /\ UNCHANGED result
                 ELSE \* create_collection raises; nothing catches it
                      /\ pc' = "raised"
                      /\ result' = "exception"
                      /\ UNCHANGED collection
    /\ UNCHANGED <<selected_files, documents, chunks, idxEnv, ckVars, srvVars, replVars>>

\* RAGSystem.initialize_embedding_model / index.py get_nomic_embedding_model
\* (the latter validates NOMIC_API_KEY here)
InitEmbedding ==
    /\ pc = "embed_init"
    /\ IF entry = "index" /\ ~nomic_key
       THEN pc' = "raised" /\ result' = "exception"
       ELSE pc' = "index" /\ UNCHANGED result
    /\ UNCHANGED <<selected_files, documents, chunks, calls, idxStore, idxEnv, ckVars, srvVars, replVars>>

\* the service calls of index_documents: index.py embeds explicitly
\* (embed_documents) before add_texts embeds and writes
IndexCalls(e) ==
    IF e = "index" THEN <<"embed", "embed", "upsert">> ELSE <<"embed", "upsert">>

\* index_documents(chunks): okCalls of its service calls succeed, the next
\* one (if any) raises
IndexDocuments ==
    /\ pc = "index"
    /\ \E okCalls \in 0..Len(IndexCalls(entry)) :
         /\ calls' = calls \o SubSeq(IndexCalls(entry), 1,
                         IF okCalls < Len(IndexCalls(entry)) THEN okCalls + 1 ELSE okCalls)
         /\ IF okCalls = Len(IndexCalls(entry))
            THEN pc' = "returned" /\ result' = (IF entry = "RAG" THEN "True" ELSE "None")
            ELSE pc' = "raised" /\ result' = "exception"
    /\ UNCHANGED <<selected_files, documents, chunks, idxStore, idxEnv, ckVars, srvVars, replVars>>

\* the program is started again against the same store
NewRun ==
    /\ pc \in {"returned", "raised", "init_failed"}
    /\ runs < MaxRuns
    /\ runs' = runs + 1
    /\ pc' = "new"
    /\ selected_files' = NoSelection
    /\ documents' = <<>>
    /\ chunks' = <<>>
    /\ result' = "running"
    /\ calls' = <<>>
    /\ UNCHANGED <<entry, openai_key, nomic_key, collection, createRequests, ckVars,
                   srvVars, replVars>>

NextIndex ==
    \/ RAGConstruct
    \/ IndexMain
    \/ SelectFiles
    \/ LoadDocuments
    \/ ChunkDocuments
    \/ ConnectQdrant
    \/ InitEmbedding
    \/ IndexDocuments
    \/ NewRun

\* ------------------------------------------------- the chunker on a text
Alphabet == {"a", " ", ".", "\n"}

\* every text up to MaxTextLen and every configuration the splitter accepts
\* with chunk_size > chunk_overlap >= 0
InitChunk ==
    /\ ck_text \in SeqsUpTo(Alphabet, MaxTextLen)
    /\ ck_size \in 1..MaxChunkSize
    /\ ck_overlap \in 0..(ck_size - 1)
    /\ ck_out = <<>>
    /\ ck_pc = "ready"

\* chunk_documents on one Document holding ck_text
ChunkApply ==
    /\ ck_pc = "ready"
    /\ ck_out' = chunk_documents(
                    <<[page_content |-> ck_text, source |-> <<"t">>, page |-> NoPage]>>,
                    ck_size, ck_overlap)
    /\ ck_pc' = "done"
    /\ UNCHANGED <<ck_text, ck_size, ck_overlap, idxVars, srvVars, replVars>>

NextChunk == ChunkApply

\* ---------------------------------------------------- question answering
MaxRequests == 3     \* requests handled in one behaviour

\* search_kwargs={"k": 5}
K == 5

Threads == {"t1", "t2"}

NoMemory == [set |-> FALSE, chat |-> <<>>]

\* ConversationBufferMemory(...): a memory object with an empty history
FreshMemory == [set |-> TRUE, chat |-> <<>>]

NoBody == [kind |-> "none", question |-> <<>>]

\* a thread: where it is in its request, the request's body and the locals
\* of the handler (q: the question, hist: the history loaded from the memory,
\* docs: the retrieved chunks, ans: the LLM's answer, log: the service calls
\* the request has made, each with its outcome)
IdleThread == [pc |-> "idle", body |-> NoBody, q |-> <<>>, hist |-> <<>>,
               docs |-> <<>>, ans |-> "", log |-> <<>>]

NoResp == [op |-> "none", outcome |-> "none", status |-> 0, error |-> "",
           answer |-> "", sources |-> <<>>, question |-> <<>>]

Answers == {"a1"}

\* the question strings a caller sends (blank, padded, plain)
QuestionTexts == { <<>>, <<" ", " ">>, <<" ", "q">>, <<"r">> }

\* the bodies of POST /api/ask: no JSON body at all, a JSON object without
\* the key "question", a JSON object with it
Bodies == { [kind |-> "nobody", question |-> <<>>],
            [kind |-> "nokey", question |-> <<>>] }
          \cup { [kind |-> "q", question |-> x] : x \in QuestionTexts }

\* what the collection holds: nothing, or six records, two of them chunks of
\* the same file and page
StoreSix ==
    << [source |-> <<"/", "d", "/", "a", ".", "p", "d", "f">>, page |-> 0],
       [source |-> <<"/", "d", "/", "a", ".", "p", "d", "f">>, page |-> 0],
       [source |-> <<"/", "d", "/", "a", ".", "p", "d", "f">>, page |-> 1],
       [source |-> <<"c", ".", "T", "x", "T">>, page |-> NoPage],
       [source |-> <<"B", ".", "P", "D", "F">>, page |-> 0],
       [source |-> <<"U", "n", "k", "n", "o", "w", "n">>, page |-> 1] >>

IndexChoices == { <<>>, StoreSix }

Min(a, b) == IF a < b THEN a ELSE b

Reverse(q) == [i \in 1..Len(q) |-> q[Len(q) + 1 - i]]

\* retriever with k = 5: the k best records in the store's ranking (the
\* ranking is the store's: here the stored order or its reverse)
Retrieve(store, rev) ==
    LET ranked == IF rev THEN Reverse(store) ELSE store
    IN  SubSeq(ranked, 1, Min(K, Len(ranked)))

Str_Unknown == <<"U", "n", "k", "n", "o", "w", "n">>

\* one iteration of the sources loop: the file name of the path, the page
FormatSource(doc) ==
    [source |-> IF doc.source # Str_Unknown THEN Basename(doc.source) ELSE Str_Unknown,
     page |-> doc.page]

RECURSIVE Dedup(_, _)
Dedup(q, seen) ==
    IF q = <<>> THEN <<>>
    ELSE IF Head(q) \in seen THEN Dedup(Tail(q), seen)
         ELSE <<Head(q)>> \o Dedup(Tail(q), seen \cup {Head(q)})

\* FormatSources listing each (file, page) once
FormatSourcesDedup(docs) == Dedup([i \in 1..Len(docs) |-> FormatSource(docs[i])], {})

\* the sources loop of ask_question: one entry per source document, in order
FormatSources(docs) == [i \in 1..Len(docs) |-> FormatSource(docs[i])]

\* the question handed to the chain: the instruction, then the question
WrapQuestion(q) == <<"Answer strictly based on the documents.">> \o q

\* the two messages of a turn, as memory.save_context records them
HumanMessage(question) == [role |-> "human", content |-> question]
AIMessage(answer) == [role |-> "ai", content |-> <<answer>>]

\* AddMessage recording the message twice
AddMessageTwice(m, msg) == [m EXCEPT !.chat = @ \o <<msg, msg>>]

\* chat_memory.add_message: memory.save_context at the end of a successful
\* chain call adds the question, then the answer, one append each
AddMessage(m, msg) == [m EXCEPT !.chat = Append(@, msg)]

\* LoadMemory keeping the last turn only
LoadMemoryWindow(m) ==
    IF Len(m.chat) <= 2 THEN m.chat ELSE SubSeq(m.chat, Len(m.chat) - 1, Len(m.chat))

\* memory.load_memory_variables at the start of a chain call: the whole
\* buffer of the one memory object
LoadMemory(m) == m.chat

\* the service calls of the chain before the answering call: with a
\* non-empty history the LLM condenses history and question into one
\* question; the question is embedded; the collection is searched
RetrieveCalls(hist) ==
    (IF hist # <<>> THEN <<"LLM">> ELSE <<>>) \o <<"embedding", "vector store">>

\* the message of the exception a failed call raises
ServiceError(svc) == svc \o " failed"

\* Attempt calling a failed service a second time
AttemptRetry(stages, n) ==
    [i \in 1..(IF n < Len(stages) THEN n + 2 ELSE n) |->
        [svc |-> stages[IF i <= n + 1 THEN i ELSE n + 1], ok |-> i <= n]]

\* the calls made when the first n of the stages succeed: each in turn, up
\* to and including the first that fails
Attempt(stages, n) ==
    [i \in 1..(IF n < Len(stages) THEN n + 1 ELSE n) |->
        [svc |-> stages[i], ok |-> i <= n]]

\* ClearMemory that clears nothing
ClearMemoryNoOp(m) == m

\* ClearMemory that forgets the last turn only
ClearMemoryDropLast(m) ==
    IF m.set /\ m.chat # <<>> THEN [m EXCEPT !.chat = SubSeq(@, 1, Len(@) - 1)] ELSE m

\* `if memory: memory.clear()`
ClearMemory(m) == IF m.set THEN [m EXCEPT !.chat = <<>>] ELSE m

\* data.get('question', '').strip()
ParseQuestion(body) == Strip(IF body.kind = "q" THEN body.question ELSE <<>>)

ErrorResp(op, status, msg) ==
    [op |-> op, outcome |-> "error", status |-> status, error |-> msg,
     answer |-> "", sources |-> <<>>, question |-> <<>>]

\* the early returns of app.py ask_question; NoResp when the request goes
\* on to the chain. getJsonRaises: request.get_json() raises on a request
\* without a JSON body (otherwise it returns None and data.get raises).
AskEarlyResponse(body, chainReady, getJsonRaises) ==
    IF body.kind = "nobody"
    THEN ErrorResp("ask", 500, IF getJsonRaises THEN "get_json error"
                               ELSE "'NoneType' object has no attribute 'get'")
    ELSE IF ParseQuestion(body) = <<>>
         THEN ErrorResp("ask", 400, "Question is required")
         ELSE IF ~chainReady
              THEN ErrorResp("ask", 500, "QA system not initialized")
              ELSE NoResp

\* the routes app.py registers with @app.route
Routes == { [method |-> "GET", path |-> "/", handler |-> "index"],
            [method |-> "POST", path |-> "/api/ask", handler |-> "ask_question"],
            [method |-> "POST", path |-> "/api/clear", handler |-> "clear_conversation"] }

\* the handler the framework dispatches a request to; "404" when no route
\* has the path, "405" when the path is routed for other methods only
Dispatch(method, path) ==
    IF \E r \in Routes : r.path = path /\ r.method = method
    THEN (CHOOSE r \in Routes : r.path = path /\ r.method = method).handler
    ELSE IF \E r \in Routes : r.path = path THEN "405" ELSE "404"

\* requests besides POST /api/ask and POST /api/clear
OtherRequests == { [method |-> "GET", path |-> "/"],
                   [method |-> "POST", path |-> "/api/upload"],
                   [method |-> "GET", path |-> "/api/ask"] }

\* the status a surface gives a failure: 500 over HTTP, none for a Python caller
FailStatus(sf) == IF sf = "app" THEN 500 ELSE 0
OkStatus(sf) == IF sf = "app" THEN 200 ELSE 0

SrvIdle ==
    /\ surface = "none" /\ launch = "none" /\ srv_pc = "idle" /\ qa_chain = FALSE
    /\ memory = NoMemory /\ index_store = <<>>
    /\ threads = [t \in Threads |-> IdleThread]
    /\ resp = [t \in Threads |-> NoResp]
    /\ nreq = 0 /\ lastMemOp = "none" /\ recorded = <<>>

CkIdle ==
    /\ ck_text = <<>> /\ ck_size = 1 /\ ck_overlap = 0 /\ ck_out = <<>>
    /\ ck_pc = "idle"

IdxIdle ==
    /\ entry = "RAG" /\ pc = "idle"
    /\ selected_files = NoSelection /\ documents = <<>> /\ chunks = <<>>
    /\ result = "running" /\ calls = <<>> /\ collection = Absent
    /\ createRequests = 0 /\ runs = 0

InitServer ==
    /\ surface \in {"app", "RAG"}
    /\ launch \in (IF surface = "app" THEN {"main", "import"} ELSE {"object"})
    /\ openai_key \in BOOLEAN
    /\ nomic_key \in BOOLEAN
    /\ srv_pc = "boot"
    /\ qa_chain = FALSE
    /\ memory = NoMemory
    /\ index_store \in IndexChoices
    /\ threads = [t \in Threads |-> IdleThread]
    /\ resp = [t \in Threads |-> NoResp]
    /\ nreq = 0
    /\ lastMemOp = "none"
    /\ recorded = <<>>

srvEnv == <<surface, launch, index_store, openai_key, nomic_key>>
notSrv == <<entry, pc, selected_files, documents, chunks, result, calls, collection,
            createRequests, runs, ckVars, replVars>>

\* app.py: `initialize_qa_system(); app.run(...)` under __main__, or the
\* module imported by a WSGI server, which serves with qa_chain = None
AppStart ==
    /\ surface = "app" /\ srv_pc = "boot"
    /\ IF launch = "import"
       THEN srv_pc' = "serving" /\ UNCHANGED <<qa_chain, memory>>
       ELSE \E initOk \in BOOLEAN :
              IF openai_key /\ nomic_key /\ initOk
              THEN srv_pc' = "serving" /\ qa_chain' = TRUE /\ memory' = FreshMemory
              ELSE srv_pc' = "stopped" /\ UNCHANGED <<qa_chain, memory>>
    /\ UNCHANGED <<srvEnv, threads, resp, nreq, lastMemOp, recorded, notSrv>>

\* RAGSystem(): the object exists iff both keys are set
RagStart ==
    /\ surface = "RAG" /\ srv_pc = "boot"
    /\ srv_pc' = IF openai_key /\ nomic_key THEN "serving" ELSE "stopped"
    /\ UNCHANGED <<srvEnv, qa_chain, memory, threads, resp, nreq, lastMemOp, recorded,
                   notSrv>>

\* POST /api/ask up to the chain call: parse, validate, and (on entering the
\* chain) load the conversation history from the memory
AskReceive(t) ==
    /\ surface = "app" /\ srv_pc = "serving"
    /\ threads[t].pc = "idle" /\ nreq < MaxRequests
    /\ nreq' = nreq + 1
    /\ \E body \in Bodies, getJsonRaises \in BOOLEAN :
         LET early == AskEarlyResponse(body, qa_chain, getJsonRaises) IN
         IF early # NoResp
         THEN /\ resp' = [resp EXCEPT ![t] = early]
              /\ threads' = [threads EXCEPT ![t] = [IdleThread EXCEPT !.body = body]]
         ELSE /\ resp' = [resp EXCEPT ![t] = NoResp]
              /\ threads' = [threads EXCEPT ![t] =
                    [pc |-> "retrieve", body |-> body, q |-> ParseQuestion(body),
                     hist |-> LoadMemory(memory), docs |-> <<>>, ans |-> "",
                     log |-> <<>>]]
    /\ UNCHANGED <<srvEnv, srv_pc, qa_chain, memory, lastMemOp, recorded, notSrv>>

\* RAGSystem.ask_question up to the chain call: the QA system is built on
\* first use (initialize_qa_system, which may raise)
RagAsk ==
    /\ surface = "RAG" /\ srv_pc = "serving"
    /\ threads["t1"].pc = "idle" /\ nreq < MaxRequests
    /\ nreq' = nreq + 1
    /\ \E question \in QuestionTexts, initOk \in BOOLEAN :
         IF ~qa_chain /\ ~initOk
         THEN /\ resp' = [resp EXCEPT !["t1"] = ErrorResp("ask", 0, "init raised")]
              /\ threads' = [threads EXCEPT !["t1"] =
                    [IdleThread EXCEPT !.body = [kind |-> "q", question |-> question]]]
              /\ UNCHANGED <<qa_chain, memory>>
         ELSE /\ qa_chain' = TRUE
              /\ memory' = IF qa_chain THEN memory ELSE FreshMemory
              /\ resp' = [resp EXCEPT !["t1"] = NoResp]
              /\ threads' = [threads EXCEPT !["t1"] =
                    [pc |-> "retrieve", body |-> [kind |-> "q", question |-> question],
                     q |-> question, hist |-> LoadMemory(memory'), docs |-> <<>>,
                     ans |-> "", log |-> <<>>]]
    /\ UNCHANGED <<srvEnv, srv_pc, lastMemOp, recorded, notSrv>>

\* the handling of an exception out of the chain, raised by the last call
\* of log: `except Exception` in app.py answers 500 with str(e);
\* RAGSystem.ask_question lets it propagate
AskFail(t, log) ==
    /\ resp' = [resp EXCEPT ![t] =
          ErrorResp("ask", FailStatus(surface), ServiceError(log[Len(log)].svc))]
    /\ threads' = [threads EXCEPT ![t].pc = "idle", ![t].log = log]

\* the chain up to the retrieved chunks: condense the question when there
\* is a history, embed the question, search the collection
AskRetrieve(t) ==
    /\ threads[t].pc = "retrieve"
    /\ LET stages == RetrieveCalls(threads[t].hist) IN
       \E n \in 0..Len(stages), rev \in BOOLEAN :
         LET log == Attempt(stages, n) IN
         IF n = Len(stages)
         THEN /\ threads' = [threads EXCEPT ![t].pc = "llm",
                                            ![t].docs = Retrieve(index_store, rev),
                                            ![t].log = log]
              /\ UNCHANGED resp
         ELSE AskFail(t, log)
    /\ UNCHANGED <<srvEnv, srv_pc, qa_chain, memory, nreq, lastMemOp, recorded, notSrv>>

\* the LLM call with the loaded history, the retrieved chunks and the question
AskAnswer(t) ==
    /\ threads[t].pc = "llm"
    /\ \E n \in 0..1, a \in Answers :
         LET log == threads[t].log \o Attempt(<<"LLM">>, n) IN
         IF n = 1
         THEN /\ threads' = [threads EXCEPT ![t].pc = "save", ![t].ans = a,
                                            ![t].log = log]
              /\ UNCHANGED resp
         ELSE AskFail(t, log)
    /\ UNCHANGED <<srvEnv, srv_pc, qa_chain, memory, nreq, lastMemOp, recorded, notSrv>>

\* the end of a successful chain call, first half: save_context appends the
\* question to the memory
AskSave(t) ==
    /\ threads[t].pc = "save"
    /\ LET msg == HumanMessage(WrapQuestion(threads[t].q)) IN
       /\ memory' = AddMessage(memory, msg)
       /\ recorded' = Append(recorded, msg)
    /\ lastMemOp' = "question " \o t
    /\ threads' = [threads EXCEPT ![t].pc = "save_ai"]
    /\ UNCHANGED <<srvEnv, srv_pc, qa_chain, resp, nreq, notSrv>>

\* second half, and the end of the handler: save_context appends the
\* answer, the sources are formatted, the response is returned
AskSaveAi(t) ==
    /\ threads[t].pc = "save_ai"
    /\ LET msg == AIMessage(threads[t].ans) IN
       /\ memory' = AddMessage(memory, msg)
       /\ recorded' = Append(recorded, msg)
    /\ lastMemOp' = "answer " \o t
    /\ resp' = [resp EXCEPT ![t] =
          [op |-> "ask", outcome |-> "ok", status |-> OkStatus(surface), error |-> "",
           answer |-> threads[t].ans, sources |-> FormatSources(threads[t].docs),
           question |-> threads[t].q]]
    /\ threads' = [threads EXCEPT ![t].pc = "idle"]
    /\ UNCHANGED <<srvEnv, srv_pc, qa_chain, nreq, notSrv>>

\* POST /api/clear, RAGSystem.clear_conversation
Clear(t) ==
    /\ srv_pc = "serving"
    /\ surface = "RAG" => t = "t1"
    /\ threads[t].pc = "idle" /\ nreq < MaxRequests
    /\ nreq' = nreq + 1
    /\ memory' = ClearMemory(memory)
    /\ recorded' = <<>>
    /\ lastMemOp' = IF memory.chat # <<>> THEN "clear_nonempty" ELSE "clear_empty"
    /\ resp' = [resp EXCEPT ![t] =
          [op |-> "clear", outcome |-> "ok", status |-> OkStatus(surface),
           error |-> "", answer |-> "", sources |-> <<>>, question |-> <<>>]]
    /\ UNCHANGED <<srvEnv, srv_pc, qa_chain, threads, notSrv>>

\* a request that is neither an ask nor a clear: the chat page, or the
\* framework's answer to a request no route takes
HttpOther(t) ==
    /\ surface = "app" /\ srv_pc = "serving"
    /\ threads[t].pc = "idle" /\ nreq < MaxRequests
    /\ nreq' = nreq + 1
    /\ \E r \in OtherRequests :
         LET h == Dispatch(r.method, r.path) IN
         resp' = [resp EXCEPT ![t] =
            [op |-> r.method \o " " \o r.path,
             outcome |-> IF h = "index" THEN "ok" ELSE "error",
             status |-> IF h = "index" THEN 200 ELSE IF h = "405" THEN 405 ELSE 404,
             error |-> "", answer |-> "", sources |-> <<>>, question |-> <<>>]]
    /\ UNCHANGED <<srvEnv, srv_pc, qa_chain, memory, threads, lastMemOp, recorded,
                   notSrv>>

Next ==
    \/ AppStart
    \/ RagStart
    \/ \E t \in Threads : AskReceive(t)
    \/ RagAsk
    \/ \E t \in Threads : AskRetrieve(t)
    \/ \E t \in Threads : AskAnswer(t)
    \/ \E t \in Threads : AskSave(t)
    \/ \E t \in Threads : AskSaveAi(t)
    \/ \E t \in Threads : Clear(t)
    \/ \E t \in Threads : HttpOther(t)

\* ------------------------------------------------------------ chat loop
Str_exit == <<"e", "x", "i", "t">>

\* the lines a user types: exit in three spellings, exit followed by a
\* space, a question, an empty line
Lines == { <<"e", "x", "i", "t">>, <<"E", "X", "I", "T">>, <<"E", "x", "i", "t">>,
           <<"e", "x", "i", "t", " ">>, <<"q">>, <<>> }

\* `user_question.lower() == "exit"`
IsExit(line) == Lower(line) = Str_exit

\* where the loop is after the chain raised on a line: run_interactive_chat
\* catches the exception and reads on; start_chat has no try around
\* chain.run, so the exception leaves the loop
AfterAskError(impl) == IF impl = "RAG" THEN "reading" ELSE "crashed"

ReplIdle ==
    /\ repl_impl = "none" /\ repl_pc = "idle" /\ repl_read = <<>>
    /\ repl_fwd = <<>> /\ repl_out = <<>>

InitRepl ==
    /\ repl_impl \in {"RAG", "ask"}
    /\ openai_key \in BOOLEAN
    /\ nomic_key \in BOOLEAN
    /\ repl_pc = "boot"
    /\ repl_read = <<>>
    /\ repl_fwd = <<>>
    /\ repl_out = <<>>

\* what has to hold for the session to get to its prompt: run_chat builds
\* RAGSystem() (both keys) and initialize_qa_system; ask.py main needs
\* NOMIC_API_KEY in connect_to_qdrant and the OpenAI key in ChatOpenAI
ReplCanStart(impl, okey, nkey, initOk) == okey /\ nkey /\ initOk

\* run_chat() / run_interactive_chat up to the loop; ask.py main() up to
\* start_chat
ReplStart ==
    /\ repl_pc = "boot"
    /\ \E initOk \in BOOLEAN :
         repl_pc' = IF ReplCanStart(repl_impl, openai_key, nomic_key, initOk)
                    THEN "reading" ELSE "init_failed"
    /\ UNCHANGED <<repl_impl, repl_read, repl_fwd, repl_out, idxVars, ckVars, srvVars>>

\* one iteration of the while loop: read a line, leave on exit, otherwise ask
ReplIteration ==
    /\ repl_pc = "reading"
    /\ Len(repl_read) < MaxLines
    /\ \E line \in Lines, ok \in BOOLEAN :
         /\ repl_read' = Append(repl_read, line)
         /\ IF IsExit(line)
            THEN repl_pc' = "done" /\ UNCHANGED <<repl_fwd, repl_out>>
            ELSE /\ repl_fwd' = Append(repl_fwd, line)
                 /\ repl_out' = Append(repl_out, IF ok THEN "answer" ELSE "error")
                 /\ repl_pc' = IF ok THEN "reading" ELSE AfterAskError(repl_impl)
    /\ UNCHANGED <<repl_impl, idxVars, ckVars, srvVars>>

NextRepl ==
    \/ ReplStart
    \/ ReplIteration

Init == InitServer /\ CkIdle /\ IdxIdle /\ ReplIdle

Spec == Init /\ [][Next]_vars

InitIndexing == InitIndex /\ CkIdle /\ SrvIdle /\ ReplIdle

SpecIndex == InitIndexing /\ [][NextIndex]_vars

InitChunking ==
    InitChunk /\ IdxIdle /\ SrvIdle /\ ReplIdle /\ openai_key = TRUE
    /\ nomic_key = TRUE

IdxIdleRepl ==
    /\ entry = "RAG" /\ pc = "idle"
    /\ selected_files = NoSelection /\ documents = <<>> /\ chunks = <<>>
    /\ result = "running" /\ calls = <<>> /\ collection = Absent
    /\ createRequests = 0 /\ runs = 0

InitChat == InitRepl /\ CkIdle /\ IdxIdleRepl /\ SrvIdle

SpecRepl == InitChat /\ [][NextRepl]_vars

SpecChunk == InitChunking /\ [][NextChunk]_vars

\* ------------------------------------------------------------ the claims

C1_IsPdf(path) ==
    path \in { <<"/", "d", "/", "a", ".", "p", "d", "f">>, <<"B", ".", "P", "D", "F">> }

C1_IsTxt(path) == path = <<"c", ".", "T", "x", "T">>

C1_Expected(files) ==
    Flatten([i \in 1..Len(files) |->
        IF files[i].load = "ok" /\ C1_IsPdf(files[i].path) THEN PdfPages(files[i].path)
        ELSE IF files[i].load = "ok" /\ C1_IsTxt(files[i].path) THEN TxtDocs(files[i].path)
        ELSE <<>>])

C1_Loaded == pc \in {"chunk", "connect", "embed_init", "index", "raised"}
             \/ (pc = "returned" /\ selected_files # NoSelection)

\* C1: once the loader has run on a batch, the Documents it returned are
\* exactly the Documents of the batch's .pdf/.txt files (extension compared
\* ignoring case) whose load succeeded, in input order; unsupported files and
\* files whose load raised contribute nothing and do not stop the batch.
C1_LoaderPartialSuccess ==
    C1_Loaded => documents = C1_Expected(selected_files)

\* C1 witness: a batch whose first file is skipped or fails to load and
\* whose later file loaded, so that Documents were returned all the same.
C1_Witness ==
    /\ C1_Loaded
    /\ Len(selected_files) >= 2
    /\ \/ selected_files[1].load = "error" /\ C1_IsPdf(selected_files[1].path)
       \/ ~C1_IsPdf(selected_files[1].path) /\ ~C1_IsTxt(selected_files[1].path)
    /\ selected_files[2].load = "ok"
    /\ selected_files[2].path = <<"B", ".", "P", "D", "F">>
    /\ documents # <<>>

C2_NoInput ==
    /\ pc \notin {"new", "select", "init_failed", "idle"}
    /\ \/ selected_files = NoSelection
       \/ pc # "load" /\ documents = <<>>

\* C2: a run of the indexing workflow with no file selected, or with no
\* Document loaded, has returned normally without any call to the vector
\* store (existence check, creation, write) or to the embedding service.
C2_EmptyInputIsNoOp ==
    C2_NoInput => /\ pc = "returned"
                  /\ result \in {"False", "None"}
                  /\ calls = <<>>

\* C2 witness: files were selected, none of them gave a Document, and the
\* workflow has returned.
C2_Witness ==
    /\ pc = "returned"
    /\ selected_files # NoSelection
    /\ documents = <<>>
    /\ calls = <<>>

\* C7 as claimed: every chunk produced by chunk_documents is at most
\* chunk_size characters long.
C7_ChunkWithinSize ==
    ck_pc = "done" => \A k \in 1..Len(ck_out) : Len(ck_out[k].page_content) <= ck_size

\* C8 as claimed: a create-collection request is issued only when the
\* collection is absent from the store.
C8_CreateOnlyWhenAbsent ==
    [][createRequests' # createRequests => collection = Absent]_vars

C3_Blank(body) ==
    \/ body.kind \in {"nobody", "nokey"}
    \/ body.kind = "q" /\ \A i \in 1..Len(body.question) : body.question[i] = " "

\* C3 as claimed: POST /api/ask with a blank or missing question (no key, or
\* no JSON body at all) is answered 400.
C3_BlankOrMissingIs400 ==
    \A t \in Threads :
        (surface = "app" /\ threads[t].pc = "idle" /\ resp[t].op = "ask"
         /\ C3_Blank(threads[t].body))
        => resp[t].status = 400

\* C4 as claimed: POST /api/upload is answered 202.
C4_UploadAccepted ==
    \A t \in Threads : resp[t].op = "POST /api/upload" => resp[t].status = 202

\* C5: an ask that starts when the last write to the memory was a clear
\* loads an empty conversation history, which is the history its LLM call
\* is given: no turn recorded before the clear is in it.
C5_ClearThenAskEmptyHistory ==
    [][\A t \in Threads :
          (lastMemOp \in {"clear_nonempty", "clear_empty"}
           /\ threads[t].pc = "idle" /\ threads'[t].pc = "retrieve")
          => threads'[t].hist = <<>>]_vars

\* C5 witness: an ask is at its LLM call with an empty history after a clear
\* that removed recorded turns.
C5_Witness ==
    \E t \in Threads :
        /\ threads[t].pc = "llm"
        /\ threads[t].hist = <<>>
        /\ lastMemOp = "clear_nonempty"
        /\ \A u \in Threads \ {t} : threads[u].pc = "idle"

\* C6: every clear leaves the history empty (an absent memory stays
\* absent), a further clear would change nothing, and the caller gets the
\* success answer (status 200 over HTTP).
C6_ClearIdempotent ==
    [][\A t \in Threads :
          Clear(t) => /\ memory'.chat = <<>>
                      /\ memory'.set = memory.set
                      /\ ClearMemory(memory') = memory'
                      /\ resp'[t].outcome = "ok"
                      /\ resp'[t].status = OkStatus(surface)]_vars

\* C6 witness: a clear was applied to a history already emptied by a clear,
\* and both were answered with success.
C6_Witness ==
    /\ surface = "app"
    /\ lastMemOp = "clear_empty"
    /\ memory = FreshMemory
    /\ nreq = 3
    /\ \A t \in Threads : resp[t].op = "clear" /\ resp[t].status = 200

\* C9: a successful ask appends exactly its own turn, the question and then
\* the answer, at the end of the history (the two are adjacent there when no
\* other request wrote the memory in between); the step that ends an ask
\* with an error leaves the history as it was; nothing else but a clear
\* changes it.
C9_HistoryGrowsByOne ==
    [][/\ \A t \in Threads :
             /\ (threads[t].pc = "save" /\ threads'[t].pc = "save_ai")
                => memory'.chat =
                     Append(memory.chat,
                            [role |-> "human", content |-> WrapQuestion(threads[t].q)])
             /\ (threads[t].pc = "save_ai" /\ threads'[t].pc = "idle")
                => /\ resp'[t].outcome = "ok"
                   /\ memory'.chat =
                        Append(memory.chat,
                               [role |-> "ai", content |-> <<resp'[t].answer>>])
                   /\ lastMemOp = "question " \o t
                      => memory'.chat =
                           SubSeq(memory.chat, 1, Len(memory.chat) - 1)
                           \o << [role |-> "human",
                                  content |-> WrapQuestion(resp'[t].question)],
                                 [role |-> "ai", content |-> <<resp'[t].answer>>] >>
             /\ (threads[t].pc \in {"retrieve", "llm"} /\ threads'[t].pc = "idle")
                => /\ resp'[t].outcome = "error"
                   /\ memory' = memory
       /\ memory'.chat # memory.chat
          => \/ \E t \in Threads : threads[t].pc \in {"save", "save_ai"}
                                   /\ threads'[t].pc # threads[t].pc
             \/ memory'.chat = <<>>]_vars

\* C9 witness: two turns are recorded, question and answer alternating, and
\* a later ask failed at the LLM call.
C9_Witness ==
    \E t \in Threads :
        /\ Len(memory.chat) = 4
        /\ \A i \in 1..4 : memory.chat[i].role = (IF i % 2 = 1 THEN "human" ELSE "ai")
        /\ resp[t].outcome = "error"
        /\ resp[t].error = "LLM failed"

C10_FileName(path) ==
    IF path = <<"/", "d", "/", "a", ".", "p", "d", "f">>
    THEN <<"a", ".", "p", "d", "f">> ELSE path

\* C10: the sources of a successful ask list the retrieved chunks one by
\* one, in retrieval order, each as (file name, page), equal entries kept;
\* there are as many as chunks retrieved: min(5, records in the index).
C10_SourcesPerChunk ==
    \A t \in Threads :
        (resp[t].op = "ask" /\ resp[t].outcome = "ok" /\ threads[t].pc = "idle")
        => LET d == threads[t].docs
               src == resp[t].sources
           IN  /\ Len(src) = Len(d)
               /\ Len(src) = Min(5, Len(index_store))
               /\ \A i \in 1..Len(src) :
                     src[i] = [source |-> C10_FileName(d[i].source), page |-> d[i].page]

\* C10 witness: a successful ask against an index of six records returned
\* five sources, the first two equal.
C10_Witness ==
    \E t \in Threads :
        /\ resp[t].op = "ask" /\ resp[t].outcome = "ok"
        /\ Len(resp[t].sources) = 5
        /\ resp[t].sources[1] = resp[t].sources[2]

C11_IsExit(line) ==
    line \in { <<"e", "x", "i", "t">>, <<"E", "X", "I", "T">>, <<"E", "x", "i", "t">> }

\* C11 as claimed: the chat loop has ended exactly when the last line read
\* is "exit" in any case, no earlier line was, every line before it was
\* forwarded in order and the exit line was not, and an error while
\* answering a line never ends the loop.
C11_ReplLoop ==
    repl_pc \in {"reading", "done", "crashed"} =>
        LET n == Len(repl_read) IN
        /\ repl_pc # "reading" <=> (n > 0 /\ C11_IsExit(repl_read[n]))
        /\ \A i \in 1..(n - 1) : ~C11_IsExit(repl_read[i])
        /\ repl_fwd = SelectSeq(repl_read, LAMBDA l : ~C11_IsExit(l))
        /\ repl_pc # "crashed"

\* the credentials an entry point needs: RAGSystem both keys, the standalone
\* indexer the embedding key only
C12_CredentialMissing ==
    IF entry = "RAG" THEN ~openai_key \/ ~nomic_key ELSE ~nomic_key

\* C12 as claimed: when a credential the entry point requires is missing,
\* the run never gets to load a document and never sends a request to the
\* vector store or the embedding service.
C12_FailFast ==
    (pc # "idle" /\ C12_CredentialMissing) => (documents = <<>> /\ calls = <<>>)

\* C13: there is one conversation history for all clients. An ask of any
\* client enters the chain with exactly the messages that the requests of
\* all clients have recorded since the last clear, in the order recorded;
\* when another client's ask was the last to record, its answer is the
\* last message of that history; a clear by any client leaves no message
\* of any client.
C13_SingleSharedHistory ==
    [][\A u \in Threads :
          /\ (threads[u].pc = "idle" /\ threads'[u].pc = "retrieve")
             => /\ threads'[u].hist = recorded
                /\ \A t \in Threads \ {u} :
                      (lastMemOp = "answer " \o t /\ resp[t].op = "ask"
                       /\ resp[t].outcome = "ok")
                      => /\ threads'[u].hist # <<>>
                         /\ threads'[u].hist[Len(threads'[u].hist)] =
                               [role |-> "ai", content |-> <<resp[t].answer>>]
          /\ (resp'[u] # resp[u] /\ resp'[u].op = "clear")
             => (memory'.chat = <<>> /\ recorded' = <<>>)]_vars

\* C13 witness: after one client's ask was answered, the ask of another
\* client is at its LLM call with that client's turn as its history.
C13_Witness ==
    \E t \in Threads, u \in Threads :
        /\ t # u /\ surface = "app" /\ nreq = 2
        /\ resp[t].op = "ask" /\ resp[t].outcome = "ok"
        /\ threads[u].pc = "llm"
        /\ threads[u].hist =
              << [role |-> "human", content |-> WrapQuestion(resp[t].question)],
                 [role |-> "ai", content |-> <<resp[t].answer>>] >>

C14_Message(svc) ==
    CASE svc = "LLM" -> "LLM failed"
      [] svc = "embedding" -> "embedding failed"
      [] svc = "vector store" -> "vector store failed"

C14_Failed(t) == { i \in 1..Len(threads[t].log) : ~threads[t].log[i].ok }

\* C14: a request makes no service call after one of its calls failed (the
\* failed call is the last it made); POST /api/ask then ends with status
\* 500 and the failed call's error message as its error, and the server
\* goes on serving: the chain is still there and the thread takes the next
\* request.
C14_NoRetryAnswers500 ==
    \A t \in Threads :
        /\ C14_Failed(t) \subseteq {Len(threads[t].log)}
        /\ (C14_Failed(t) # {} /\ surface = "app")
           => /\ threads[t].pc = "idle"
              /\ srv_pc = "serving" /\ qa_chain
              /\ resp[t].op = "ask"
                 => /\ resp[t].status = 500
                    /\ resp[t].outcome = "error"
                    /\ resp[t].error =
                          C14_Message(threads[t].log[Len(threads[t].log)].svc)
                    /\ resp[t].answer = "" /\ resp[t].sources = <<>>
              /\ nreq < MaxRequests => ENABLED AskReceive(t)

\* C14 witness: an ask with a history was answered 500 because the vector
\* store failed after the two calls before it had succeeded, and requests
\* can still be made.
C14_Witness ==
    \E t \in Threads :
        /\ surface = "app" /\ threads[t].pc = "idle" /\ nreq < MaxRequests
        /\ resp[t].op = "ask" /\ resp[t].status = 500
        /\ resp[t].error = "vector store failed"
        /\ threads[t].log = << [svc |-> "LLM", ok |-> TRUE],
                               [svc |-> "embedding", ok |-> TRUE],
                               [svc |-> "vector store", ok |-> FALSE] >>

====
